---- MODULE Spec2Model ----
(***************************************************************************)
(* A model of include/librealsense/rs.hpp: the C++ binding over the        *)
(* librealsense C ABI.  The binding owns native handles (frames, errors,   *)
(* streaming locks, contexts, devices, frame queues); the model tracks     *)
(* every call the binding makes on the native layer that acquires,         *)
(* transfers or releases one of them.                                      *)
(***************************************************************************)
EXTENDS Integers, Sequences, FiniteSets, TLC

\* ------------------------------------------------------------------ bounds
NumFrames == 2       \* frame objects (variables of type rs::frame) in the program
MaxRefs == 2         \* native frame references the native layer hands out
MaxEnqueues == 2     \* rs_enqueue_frame calls in one run
MaxCapacity == 2     \* largest capacity given to frame_queue(capacity)
MaxErrors == 2       \* native error objects the native layer creates
MaxValue == 3        \* option values are drawn from 0..MaxValue
NumOwners == 3       \* wrapper objects (streaming_lock, context, device, frame_queue)
MaxHandles == 2      \* native handles the native layer creates
MaxSaves == 3        \* rs_save_recording_to_file calls on one context
NumQueueObjs == 3    \* frame_queue objects (copies included) in the program
MaxDeliveries == 3   \* frames delivered into the shared native queue in one run

Null == 0            \* nullptr

FrameObjs == 1..NumFrames
Refs == 1..MaxRefs

VARIABLES
    \* ---- frame / frame_callback / frame_queue (one native queue)
    alive,        \* the frame objects currently constructed
    frame_ref,    \* frame::frame_ref of each frame object (Null when not alive)
    next_ref,     \* native frame references handed out so far
    released,     \* per reference (and Null): calls of rs_release_frame
    enqueued,     \* per reference (and Null): calls of rs_enqueue_frame
    has_queue,    \* whether the program's frame_queue has been constructed
    capacity,     \* the capacity the frame_queue was created with
    queue,        \* native queue content, oldest first
    stamp,        \* per reference: sequence number of its latest enqueue
    enq_seq,      \* enqueues so far
    deq_stamp,    \* stamp of the frame the latest poll/wait returned
    flast         \* the latest frame operation with the state before it

VARIABLES
    \* ---- device / subdevice_iterator
    dev_state,    \* "none", "built" (a device exists) or "ctor_threw"
    probe,        \* the kinds rs_is_subdevice_supported reported present
    _subdevices,  \* device::_subdevices: per kind, <<>> (empty pointer) or <<_index>>
    dlast,        \* the latest get_subdevice / supports call and its result
    it_state,     \* the loop over begin(dev)..end(dev): "none", "loop", "done", "threw"
    _idx,         \* subdevice_iterator::_idx of the loop's iterator
    visited       \* the _index of each subdevice the loop body has seen, in order

frameVars == <<alive, frame_ref, next_ref, released, enqueued, has_queue, capacity, queue,
               stamp, enq_seq, deq_stamp, flast>>
VARIABLES
    \* ---- error
    next_err,     \* native error objects created so far
    err_obj,      \* per native error object: the strings the native layer gives for it
    err_freed,    \* per native error object: calls of rs_free_error
    elast,        \* the latest wrapped call: its error slot and how it ended
    \* ---- subdevice::get_option_range
    range_out,    \* what the native range call wrote, in parameter order
    result        \* the option_range returned (or that the call threw)

VARIABLES
    \* ---- shared native handles: streaming_lock, context, device, frame_queue
    next_handle,   \* native handles created so far
    hkind,         \* per handle: "lock", "context", "device", "queue", "recording"
    use_count,     \* per handle: the shared_ptr owners of its control block
    release_calls, \* per handle: calls of rs_close / rs_delete_context /
                   \*   rs_delete_device / rs_delete_frame_queue on it
    null_deleted,  \* a deleter has run on the null pointer of a failed creation
    otype,         \* per wrapper object: its class, "none" when not constructed
    own,           \* per wrapper object: the handle its shared_ptr member holds
    was_shared,    \* per handle: it has had two owners at once
    terminated,    \* std::terminate has been called
    \* ---- recording_context
    filename,      \* per wrapper object: recording_context::_filename
    saves,         \* per handle: calls of rs_save_recording_to_file on it
    saved_to,      \* per handle: the file name of the latest such call
    given_file,    \* per handle: the file name its recording_context was constructed with
    save_on_deleted, \* such a call was made on a context already deleted
    rlast          \* the latest destruction of a recording_context

deviceVars == <<dev_state, probe, _subdevices, dlast, it_state, _idx, visited>>
errorVars == <<next_err, err_obj, err_freed, elast>>
rangeVars == <<range_out, result>>
handleVars == <<next_handle, hkind, use_count, release_calls, null_deleted, otype,
                own, was_shared, terminated>>
VARIABLES
    \* ---- frame_queue objects sharing one native queue
    q_alive,      \* the frame_queue objects currently constructed
    q_created,    \* whether rs_create_frame_queue has returned the native queue
    q_capacity,   \* the capacity the native queue was created with
    q_deleted,    \* calls of rs_delete_frame_queue on the native queue
    pending,      \* frames pending in the native queue, oldest first
    delivered,    \* frames enqueued so far (the k-th one is named k)
    q_terminated, \* std::terminate was called: a destructor threw
    qlast         \* the latest frame_queue operation with the state before it

recordingVars == <<filename, saves, saved_to, given_file, save_on_deleted, rlast>>
sharedVars == <<handleVars, recordingVars>>
copyVars == <<q_alive, q_created, q_capacity, q_deleted, pending, delivered,
              q_terminated, qlast>>

vars == <<frameVars, deviceVars, errorVars, rangeVars, sharedVars, copyVars>>

\* what the operations of one part of the binding leave alone
notFrame == <<deviceVars, errorVars, rangeVars, sharedVars, copyVars>>
notDevice == <<frameVars, errorVars, rangeVars, sharedVars, copyVars>>
notError == <<frameVars, deviceVars, rangeVars, sharedVars, copyVars>>
notRange == <<frameVars, deviceVars, errorVars, sharedVars, copyVars>>
notShared == <<frameVars, deviceVars, errorVars, rangeVars, copyVars>>
notCopies == <<frameVars, deviceVars, errorVars, rangeVars, sharedVars>>

\* ------------------------------------------------------------ class frame
\* frame() : frame_ref(nullptr)
frame_default == Null

\* frame(rs_frame * frame_ref) : frame_ref(frame_ref)
frame_wrap(fref) == fref

\* a plausible slip: the move constructor forgets to null the source
frame_move_keeps_source(src) == [self |-> src, other |-> src]

\* frame(frame&& other) : frame_ref(other.frame_ref) { other.frame_ref = nullptr; }
frame_move(src) == [self |-> src, other |-> Null]

\* void swap(frame& other) { std::swap(frame_ref, other.frame_ref); }
frame_swap(self, other) == [self |-> other, other |-> self]

\* frame& operator=(frame other) { swap(other); return *this; }
\* (the by-value parameter `other` is destroyed by the caller afterwards)
frame_assign(self, other) == frame_swap(self, other)

\* a plausible slip: the destructor releases without testing frame_ref
frame_dtor_unguarded(rel, fref) == [rel EXCEPT ![fref] = @ + 1]

\* ~frame() { if (frame_ref) rs_release_frame(frame_ref); }
frame_dtor(rel, fref) == IF fref # Null THEN [rel EXCEPT ![fref] = @ + 1] ELSE rel

\* operator bool() const { return frame_ref != nullptr; }
frame_bool(fref) == fref # Null

\* ------------------------------------------------------ native frame queue
\* rs_enqueue_frame on a queue of bounded capacity: the new frame goes to the
\* back; a queue over capacity gives up its oldest entry.
native_enqueue(q, cap, fref) ==
    LET q1 == Append(q, fref)
    IN  IF Len(q1) > cap THEN Tail(q1) ELSE q1

\* rs_poll_for_frame: 0 when empty, else 1 and the oldest entry through the
\* output pointer.
native_poll(q) ==
    IF q = <<>> THEN [res |-> 0, frame_ref |-> Null, q |-> q]
    ELSE [res |-> 1, frame_ref |-> Head(q), q |-> Tail(q)]

\* -------------------------------------------------------- class frame_queue
\* a plausible slip: enqueue leaves the parameter owning the reference
enqueue_keeps_ref(f) == [to_native |-> f, f |-> f]

\* void enqueue(frame f) const
\*   { rs_enqueue_frame(f.frame_ref, _queue.get()); f.frame_ref = nullptr; }
frame_queue_enqueue(f) == [to_native |-> f, f |-> Null]

\* a plausible slip: poll assigns the output whatever the native call returned
poll_always_assigns(out, n) ==
    [ret |-> n.res > 0, out |-> frame_assign(out, frame_wrap(n.frame_ref))]

\* bool poll_for_frame(frame* f) const
\*   { ...; if (res) *f = { frame_ref }; return res > 0; }
poll_for_frame(out, n) ==
    [ret |-> n.res > 0,
     out |-> IF n.res # 0 THEN frame_assign(out, frame_wrap(n.frame_ref))
             ELSE [self |-> out, other |-> Null]]

\* The latest operation: its name, operands and result, with what it needs of
\* the state before it: the operand a's reference, the release and enqueue
\* counts of the reference the operation is about, the queue's length, and the
\* stamp of the frame dequeued before.
Before(op, a, b, ret, fref) ==
    LET pa == IF a \in FrameObjs THEN frame_ref[a] ELSE Null
    IN  [op |-> op, a |-> a, b |-> b, ret |-> ret, ref |-> fref,
         pre_a |-> pa, pre_rel |-> released[fref], pre_rel_a |-> released[pa],
         pre_enq |-> enqueued[fref], pre_len |-> Len(queue), pre_deq |-> deq_stamp]

\* What flast holds after an operation no property below looks back on.
Other ==
    [op |-> "other", a |-> 0, b |-> 0, ret |-> FALSE, ref |-> Null,
     pre_a |-> Null, pre_rel |-> 0, pre_rel_a |-> 0, pre_enq |-> 0,
     pre_len |-> 0, pre_deq |-> 0]

FrameInit ==
    /\ alive = {}
    /\ frame_ref = [s \in FrameObjs |-> Null]
    /\ next_ref = 0
    /\ released = [r \in 0..MaxRefs |-> 0]
    /\ enqueued = [r \in 0..MaxRefs |-> 0]
    /\ has_queue = FALSE
    /\ capacity = 0
    /\ queue = <<>>
    /\ stamp = [r \in Refs |-> 0]
    /\ enq_seq = 0
    /\ deq_stamp = 0
    /\ flast = Other

queueVars == <<enqueued, has_queue, capacity, queue, stamp, enq_seq, deq_stamp>>

\* frame_queue q(cap);  (frame_queue q; is frame_queue(1))
CreateQueue(cap) ==
    /\ ~has_queue
    /\ has_queue' = TRUE
    /\ capacity' = cap
    /\ flast' = Other
    /\ UNCHANGED <<alive, frame_ref, next_ref, released, enqueued, queue, stamp,
                   enq_seq, deq_stamp>>
    /\ UNCHANGED notFrame

\* frame F;
DefaultConstruct(s) ==
    /\ s \notin alive
    /\ alive' = alive \cup {s}
    /\ frame_ref' = [frame_ref EXCEPT ![s] = frame_default]
    /\ flast' = Other
    /\ UNCHANGED <<next_ref, released, queueVars>>
    /\ UNCHANGED notFrame

\* frame F(fref); with fref a reference the native layer just handed out
WrapNative(s) ==
    /\ s \notin alive
    /\ next_ref < MaxRefs
    /\ next_ref' = next_ref + 1
    /\ alive' = alive \cup {s}
    /\ frame_ref' = [frame_ref EXCEPT ![s] = frame_wrap(next_ref + 1)]
    /\ flast' = Other
    /\ UNCHANGED <<released, queueVars>>
    /\ UNCHANGED notFrame

\* frame G(std::move(F));
MoveConstruct(g, f) ==
    /\ g \notin alive
    /\ f \in alive
    /\ LET mv == frame_move(frame_ref[f])
       IN  frame_ref' = [frame_ref EXCEPT ![f] = mv.other, ![g] = mv.self]
    /\ alive' = alive \cup {g}
    /\ flast' = Before("move_construct", g, f, FALSE, frame_ref[f])
    /\ UNCHANGED <<next_ref, released, queueVars>>
    /\ UNCHANGED notFrame

\* G = std::move(F);  the parameter `other` is move-constructed from F, swapped
\* with G and destroyed.  G and F may be the same object.
MoveAssign(g, f) ==
    /\ g \in alive
    /\ f \in alive
    /\ LET mv  == frame_move(frame_ref[f])
           fr1 == [frame_ref EXCEPT ![f] = mv.other]
           asg == frame_assign(fr1[g], mv.self)
       IN  /\ frame_ref' = [fr1 EXCEPT ![g] = asg.self]
           /\ released' = frame_dtor(released, asg.other)
    /\ flast' = Before("move_assign", g, f, FALSE, frame_ref[f])
    /\ UNCHANGED <<alive, next_ref, queueVars>>
    /\ UNCHANGED notFrame

\* G.swap(F);
Swap(g, f) ==
    /\ g \in alive
    /\ f \in alive
    /\ LET sw  == frame_swap(frame_ref[g], frame_ref[f])
           fr1 == [frame_ref EXCEPT ![f] = sw.other]
       IN  frame_ref' = [fr1 EXCEPT ![g] = IF g = f THEN fr1[g] ELSE sw.self]
    /\ flast' = Other
    /\ UNCHANGED <<alive, next_ref, released, queueVars>>
    /\ UNCHANGED notFrame

\* F goes out of scope
Destroy(s) ==
    /\ s \in alive
    /\ alive' = alive \ {s}
    /\ released' = frame_dtor(released, frame_ref[s])
    /\ frame_ref' = [frame_ref EXCEPT ![s] = Null]
    /\ flast' = Other
    /\ UNCHANGED <<next_ref, queueVars>>
    /\ UNCHANGED notFrame

\* F.try_clone_ref(&R) when rs_clone_frame_ref returns a new reference: it is
\* wrapped and assigned to R (which may be F itself).
TryCloneRef(f, r) ==
    /\ f \in alive
    /\ r \in alive
    /\ frame_bool(frame_ref[f])
    /\ next_ref < MaxRefs
    /\ next_ref' = next_ref + 1
    /\ LET asg == frame_assign(frame_ref[r], frame_wrap(next_ref + 1))
       IN  /\ frame_ref' = [frame_ref EXCEPT ![r] = asg.self]
           /\ released' = frame_dtor(released, asg.other)
    /\ flast' = Other
    /\ UNCHANGED <<alive, queueVars>>
    /\ UNCHANGED notFrame

\* F.try_clone_ref(&R) when rs_clone_frame_ref leaves an error (the call
\* throws) or returns null (the call returns false): R, whichever frame it
\* is, is not touched.
TryCloneRefFails(f, outcome) ==
    /\ f \in alive
    /\ outcome \in {"error", "null"}
    /\ flast' = Other
    /\ UNCHANGED <<alive, frame_ref, next_ref, released, queueVars>>
    /\ UNCHANGED notFrame

\* void operator()(frame f) const { enqueue(std::move(f)); }
\* f is the operator's parameter; the result names the reference handed to the
\* native queue and what the two parameters hold when they are destroyed.
frame_queue_call(f) ==
    LET mv == frame_move(f)
        e  == frame_queue_enqueue(mv.self)
    IN  [to_native |-> e.to_native, inner |-> e.f, outer |-> mv.other]

\* The native side of one rs_enqueue_frame(fref, queue) call.
NativeEnqueue(fref) ==
    /\ enqueued' = [enqueued EXCEPT ![fref] = @ + 1]
    /\ queue' = native_enqueue(queue, capacity, fref)
    /\ enq_seq' = enq_seq + 1
    /\ stamp' = [stamp EXCEPT ![fref] = enq_seq + 1]
    /\ UNCHANGED <<has_queue, capacity, deq_stamp>>

\* frame_callback<T>::on_frame(fref) { on_frame_function({ fref }); }
\* The callable's parameter is a frame wrapping fref.  The callable lets it go
\* out of scope ("drop"), moves it into a frame G of its own ("keep"), or is a
\* frame_queue ("queue").
OnFrame(kind, g) ==
    /\ next_ref < MaxRefs
    /\ next_ref' = next_ref + 1
    /\ LET p == frame_wrap(next_ref + 1)
       IN  \/ /\ kind = "drop"
              /\ released' = frame_dtor(released, p)
              /\ flast' = Other
              /\ UNCHANGED <<frame_ref, queueVars>>
           \/ /\ kind = "keep"
              /\ g \in alive
              /\ LET mv  == frame_move(p)
                     asg == frame_assign(frame_ref[g], mv.self)
                 IN  /\ frame_ref' = [frame_ref EXCEPT ![g] = asg.self]
                     /\ released' = frame_dtor(frame_dtor(released, asg.other), mv.other)
              /\ flast' = Other
              /\ UNCHANGED queueVars
           \/ /\ kind = "queue"
              /\ enq_seq < MaxEnqueues
              /\ LET c == frame_queue_call(p)
                 IN  /\ NativeEnqueue(c.to_native)
                     /\ released' = frame_dtor(frame_dtor(released, c.inner), c.outer)
              /\ flast' = Other
              /\ UNCHANGED frame_ref
    /\ UNCHANGED alive
    /\ UNCHANGED notFrame

\* q.enqueue(std::move(F));  the parameter f is move-constructed from F
Enqueue(s) ==
    /\ has_queue
    /\ s \in alive
    /\ frame_bool(frame_ref[s])
    /\ enq_seq < MaxEnqueues
    /\ LET mv == frame_move(frame_ref[s])
           e  == frame_queue_enqueue(mv.self)
       IN  /\ frame_ref' = [frame_ref EXCEPT ![s] = mv.other]
           /\ NativeEnqueue(e.to_native)
           /\ released' = frame_dtor(released, e.f)
    /\ flast' = Before("enqueue", s, 0, FALSE, frame_ref[s])
    /\ UNCHANGED <<alive, next_ref>>
    /\ UNCHANGED notFrame

\* q(std::move(F));
CallOperator(s) ==
    /\ has_queue
    /\ s \in alive
    /\ frame_bool(frame_ref[s])
    /\ enq_seq < MaxEnqueues
    /\ LET mv == frame_move(frame_ref[s])
           c  == frame_queue_call(mv.self)
       IN  /\ frame_ref' = [frame_ref EXCEPT ![s] = mv.other]
           /\ NativeEnqueue(c.to_native)
           /\ released' = frame_dtor(frame_dtor(released, c.inner), c.outer)
    /\ flast' = Before("call_op", s, 0, FALSE, frame_ref[s])
    /\ UNCHANGED <<alive, next_ref>>
    /\ UNCHANGED notFrame

\* q.poll_for_frame(&F);  with fail the native call leaves an error and
\* error::handle throws before anything is assigned.
PollForFrame(s, fail) ==
    /\ has_queue
    /\ s \in alive
    /\ \/ /\ fail
          /\ flast' = Other
          /\ UNCHANGED <<frame_ref, released, queue, deq_stamp>>
       \/ /\ ~fail
          /\ LET n == native_poll(queue)
                 p == poll_for_frame(frame_ref[s], n)
             IN  /\ queue' = n.q
                 /\ frame_ref' = [frame_ref EXCEPT ![s] = p.out.self]
                 /\ released' = frame_dtor(released, p.out.other)
                 /\ deq_stamp' = IF n.res # 0 THEN stamp[n.frame_ref] ELSE deq_stamp
                 /\ flast' = Before("poll", s, 0, p.ret, n.frame_ref)
    /\ UNCHANGED <<alive, next_ref, enqueued, has_queue, capacity, stamp, enq_seq>>
    /\ UNCHANGED notFrame

\* frame F = q.wait_for_frame();  blocks while the queue is empty
WaitForFrame(s, fail) ==
    /\ has_queue
    /\ s \notin alive
    /\ \/ /\ fail
          /\ flast' = Other
          /\ UNCHANGED <<alive, frame_ref, queue, deq_stamp>>
       \/ /\ ~fail
          /\ queue # <<>>
          /\ LET n == native_poll(queue)
             IN  /\ queue' = n.q
                 /\ alive' = alive \cup {s}
                 /\ frame_ref' = [frame_ref EXCEPT ![s] = frame_wrap(n.frame_ref)]
                 /\ deq_stamp' = stamp[n.frame_ref]
                 /\ flast' = Other
    /\ UNCHANGED <<next_ref, released, enqueued, has_queue, capacity, stamp, enq_seq>>
    /\ UNCHANGED notFrame

\* q.flush();  the native queue drops what it holds.  With fail the native
\* call leaves an error and flush throws, the queue flushed or not.
Flush(fail) ==
    /\ has_queue
    /\ queue # <<>>
    /\ queue' \in IF fail THEN {queue, <<>>} ELSE {<<>>}
    /\ flast' = Other
    /\ UNCHANGED <<alive, frame_ref, next_ref, released, enqueued, has_queue,
                   capacity, stamp, enq_seq, deq_stamp>>
    /\ UNCHANGED notFrame

FrameNext ==
    \/ \E cap \in 0..MaxCapacity : CreateQueue(cap)
    \/ \E s \in FrameObjs : DefaultConstruct(s)
    \/ \E s \in FrameObjs : WrapNative(s)
    \/ \E g, f \in FrameObjs : MoveConstruct(g, f)
    \/ \E g, f \in FrameObjs : MoveAssign(g, f)
    \/ \E g, f \in FrameObjs : Swap(g, f)
    \/ \E s \in FrameObjs : Destroy(s)
    \/ \E f, r \in FrameObjs : TryCloneRef(f, r)
    \/ \E f \in FrameObjs, o \in {"error", "null"} : TryCloneRefFails(f, o)
    \/ \E k \in {"drop", "keep", "queue"}, g \in FrameObjs : OnFrame(k, g)
    \/ \E s \in FrameObjs : Enqueue(s)
    \/ \E s \in FrameObjs : CallOperator(s)
    \/ \E s \in FrameObjs, fail \in BOOLEAN : PollForFrame(s, fail)
    \/ \E s \in FrameObjs, fail \in BOOLEAN : WaitForFrame(s, fail)
    \/ \E fail \in BOOLEAN : Flush(fail)

\* ------------------------------------------------------- frames: properties
Holders(r) == {s \in alive : frame_ref[s] = r}

\* C1: every native frame reference wrapped in a frame object and never handed
\* to a frame_queue is held by exactly one live frame object and not yet
\* released, or held by none and passed to rs_release_frame exactly once (so
\* its release is no later than the destruction of its last holder); and
\* rs_release_frame is never called for an empty frame (a null reference).
C1_ReleasedExactlyOnce ==
    /\ released[Null] = 0
    /\ \A r \in 1..next_ref :
          enqueued[r] = 0 =>
             \/ Cardinality(Holders(r)) = 1 /\ released[r] = 0
             \/ Holders(r) = {} /\ released[r] = 1

\* C1's case: an assignment G = std::move(F) has overwritten a reference G
\* held, which is now released once, while F's reference lives on in G.
C1_Witness ==
    /\ flast.op = "move_assign"
    /\ flast.a # flast.b
    /\ flast.pre_a # Null
    /\ flast.ref # Null
    /\ released[flast.pre_a] = 1
    /\ released[flast.ref] = 0

NoSharedReference ==
    \A s, t \in alive : s # t /\ frame_ref[s] # Null => frame_ref[s] # frame_ref[t]

\* C2 as stated: after G = std::move(F), by move construction or by assignment,
\* bool(F) is false and G holds the reference F held; and no two live frames
\* hold the same reference.
C2_MoveEmptiesSource ==
    /\ flast.op \in {"move_construct", "move_assign"} =>
          /\ ~frame_bool(frame_ref[flast.b])
          /\ frame_ref[flast.a] = flast.ref
    /\ NoSharedReference

\* C2 as amended: the same for G and F different objects; the self-assignment
\* F = std::move(F) leaves F holding what it held.
C2_MoveEmptiesOtherSource ==
    /\ flast.op \in {"move_construct", "move_assign"} =>
          /\ frame_ref[flast.a] = flast.ref
          /\ flast.a # flast.b => ~frame_bool(frame_ref[flast.b])
          /\ flast.a = flast.b => frame_ref[flast.b] = flast.ref
    /\ NoSharedReference

\* C2's case: a non-empty F has been move-assigned to another live frame G.
C2_Witness ==
    /\ flast.op = "move_assign"
    /\ flast.a # flast.b
    /\ flast.ref # Null
    /\ frame_ref[flast.a] = flast.ref
    /\ frame_ref[flast.b] = Null

\* C3: after q.enqueue(std::move(F)) or q(std::move(F)) the caller's frame is
\* empty, its reference went to rs_enqueue_frame exactly once in the call and
\* the call made no rs_release_frame call on it (nor on a null reference).
C3_EnqueueTransfersOwnership ==
    flast.op \in {"enqueue", "call_op"} =>
       /\ ~frame_bool(frame_ref[flast.a])
       /\ enqueued[flast.ref] = flast.pre_enq + 1
       /\ released[flast.ref] = flast.pre_rel
       /\ released[Null] = 0
       /\ Holders(flast.ref) = {}

\* C3's case: a frame holding a reference has been enqueued through operator().
C3_Witness ==
    /\ flast.op = "call_op"
    /\ flast.ref # Null
    /\ enqueued[flast.ref] = 1
    /\ Len(queue) > 0
    /\ queue[Len(queue)] = flast.ref

\* C4: poll_for_frame on an empty queue returns false and leaves *out as it
\* was (nothing released); on a non-empty queue it returns true and *out holds
\* the oldest pending frame: enqueued before every frame still pending, and
\* after the frame the poll or wait before it returned.
C4_PollOldestFirst ==
    flast.op = "poll" =>
       /\ flast.pre_len = 0 =>
             /\ ~flast.ret
             /\ frame_ref[flast.a] = flast.pre_a
             /\ released[flast.pre_a] = flast.pre_rel_a
             /\ queue = <<>>
       /\ flast.pre_len > 0 =>
             /\ flast.ret
             /\ frame_ref[flast.a] = flast.ref
             /\ flast.ref # Null
             /\ Len(queue) = flast.pre_len - 1
             /\ \A i \in 1..Len(queue) : stamp[flast.ref] < stamp[queue[i]]
             /\ stamp[flast.ref] > flast.pre_deq

\* C4's case: a poll on a queue of capacity above 1 holding two frames.
C4_Witness ==
    /\ flast.op = "poll"
    /\ flast.ret
    /\ flast.pre_len >= 2
    /\ Len(queue) >= 1

\* ------------------------------------------------------------ class device
RS_SUBDEVICE_COLOR == 0      \* the first enumerator of rs_subdevice
RS_SUBDEVICE_COUNT == 4      \* color, depth, fisheye, motion

Kinds == RS_SUBDEVICE_COLOR..(RS_SUBDEVICE_COUNT - 1)

\* the values of rs_subdevice a caller may pass, in and out of the enumeration
ArgKinds == (RS_SUBDEVICE_COLOR - 1)..(RS_SUBDEVICE_COUNT + 1)

\* `sub < _subdevices.size()` compares after converting sub to size_t: a
\* negative value wraps to a large one.  (The width is narrowed; every value
\* of ArgKinds converts as it does at 64 bits relative to the vector's size.)
ToSizeT(x) == x % (2 ^ 16)

\* a plausible slip: the constructor fills every slot, whatever the probe says
device_ctor_fills_all(p) == [s \in Kinds |-> <<s>>]

\* device(std::shared_ptr<rs_device> dev): resize to RS_SUBDEVICE_COUNT, then
\* per kind s, is_supported ? reset(new subdevice(_dev.get(), s)) : nullptr.
\* p is the set of kinds the probe reports supported.
device_ctor(p) == [s \in Kinds |-> IF s \in p THEN <<s>> ELSE <<>>]

\* bool supports(rs_subdevice sub) const
\*   { return sub < _subdevices.size() && _subdevices[sub].get(); }
device_supports(subs, sub) ==
    ToSizeT(sub) < Cardinality(DOMAIN subs) /\ subs[sub] # <<>>

\* subdevice& get_subdevice(rs_subdevice sub): the slot's subdevice when the
\* slot is in range and not empty, else throw std::runtime_error.
get_subdevice(subs, sub) ==
    IF ToSizeT(sub) < Cardinality(DOMAIN subs) /\ subs[sub] # <<>>
    THEN [threw |-> FALSE, index |-> subs[sub][1]]
    ELSE [threw |-> TRUE, index |-> -1]

\* begin(dev) { return { dev, RS_SUBDEVICE_COLOR }; }
begin == RS_SUBDEVICE_COLOR

\* end(dev) { return { dev, RS_SUBDEVICE_COUNT }; }
end == RS_SUBDEVICE_COUNT

\* subdevice_iterator::operator++:
\*   do { _idx = _idx + 1; } while (_idx != RS_SUBDEVICE_COUNT && !_dev.supports(_idx));
RECURSIVE iterator_inc(_, _)
iterator_inc(subs, i) ==
    LET j == i + 1
    IN  IF j # RS_SUBDEVICE_COUNT /\ ~device_supports(subs, j)
        THEN iterator_inc(subs, j) ELSE j

NoCall == [op |-> "none", kind |-> 0, threw |-> FALSE, index |-> -1, ret |-> FALSE]

DeviceInit ==
    /\ dev_state = "none"
    /\ probe = {}
    /\ _subdevices = [s \in Kinds |-> <<>>]
    /\ dlast = NoCall
    /\ it_state = "none"
    /\ _idx = 0
    /\ visited = <<>>

\* context::query_devices builds a device: the constructor probes each kind.
\* With fail the native probe leaves an error and the constructor throws.
DeviceCtor(p, fail) ==
    /\ dev_state = "none"
    /\ IF fail
       THEN /\ dev_state' = "ctor_threw"
            /\ UNCHANGED <<probe, _subdevices>>
       ELSE /\ dev_state' = "built"
            /\ probe' = p
            /\ _subdevices' = device_ctor(p)
    /\ UNCHANGED <<dlast, it_state, _idx, visited>>
    /\ UNCHANGED notDevice

\* dev.get_subdevice(kind)
GetSubdevice(kind) ==
    /\ dev_state = "built"
    /\ LET r == get_subdevice(_subdevices, kind)
       IN  dlast' = [op |-> "get_subdevice", kind |-> kind, threw |-> r.threw,
                     index |-> r.index, ret |-> FALSE]
    /\ UNCHANGED <<dev_state, probe, _subdevices, it_state, _idx, visited>>
    /\ UNCHANGED notDevice

\* dev.supports(kind)
Supports(kind) ==
    /\ dev_state = "built"
    /\ dlast' = [op |-> "supports", kind |-> kind, threw |-> FALSE, index |-> -1,
                 ret |-> device_supports(_subdevices, kind)]
    /\ UNCHANGED <<dev_state, probe, _subdevices, it_state, _idx, visited>>
    /\ UNCHANGED notDevice

\* for (auto it = begin(dev); ...
LoopStart ==
    /\ dev_state = "built"
    /\ it_state = "none"
    /\ it_state' = "loop"
    /\ _idx' = begin
    /\ visited' = <<>>
    /\ UNCHANGED <<dev_state, probe, _subdevices, dlast>>
    /\ UNCHANGED notDevice

\* ... it != end(dev); ++it) use(*it);   one test of the condition and, when
\* it holds, one run of the body and the increment.  operator* is
\* _dev.get_subdevice(_idx); what it throws leaves the loop.
LoopStep ==
    /\ it_state = "loop"
    /\ IF _idx = end
       THEN /\ it_state' = "done"
            /\ UNCHANGED <<_idx, visited>>
       ELSE LET r == get_subdevice(_subdevices, _idx)
            IN  IF r.threw
                THEN /\ it_state' = "threw"
                     /\ UNCHANGED <<_idx, visited>>
                ELSE /\ visited' = Append(visited, r.index)
                     /\ _idx' = iterator_inc(_subdevices, _idx)
                     /\ UNCHANGED it_state
    /\ UNCHANGED <<dev_state, probe, _subdevices, dlast>>
    /\ UNCHANGED notDevice

DeviceNext ==
    \/ \E p \in SUBSET Kinds, fail \in BOOLEAN : DeviceCtor(p, fail)
    \/ \E k \in ArgKinds : GetSubdevice(k)
    \/ \E k \in ArgKinds : Supports(k)
    \/ LoopStart
    \/ LoopStep

\* ------------------------------------------------------- device: properties
\* the kinds of a set in ascending order
RECURSIVE Ascending(_)
Ascending(S) ==
    IF S = {} THEN <<>>
    ELSE LET lo == CHOOSE x \in S : \A y \in S : x <= y
         IN  <<lo>> \o Ascending(S \ {lo})

\* C5: get_subdevice(kind) throws exactly when the constructor's probe
\* reported the kind absent or the kind is outside the enumeration, and
\* otherwise returns the subdevice whose index is kind; supports(kind) is true
\* exactly for the kinds on which get_subdevice does not throw.
C5_GetSubdeviceFollowsProbe ==
    dev_state = "built" =>
       /\ dlast.op = "get_subdevice" =>
             /\ dlast.threw <=> dlast.kind \notin probe
             /\ ~dlast.threw => dlast.index = dlast.kind
       /\ dlast.op = "supports" => (dlast.ret <=> dlast.kind \in probe)
       /\ \A k \in ArgKinds :
             device_supports(_subdevices, k) <=> ~get_subdevice(_subdevices, k).threw

\* C5's case: on a device that supports some kinds and not others,
\* get_subdevice has returned the subdevice of a supported kind other than the
\* first.
C5_Witness ==
    /\ dev_state = "built"
    /\ probe # {} /\ probe # Kinds
    /\ dlast.op = "get_subdevice"
    /\ ~dlast.threw
    /\ dlast.kind # RS_SUBDEVICE_COLOR
    /\ dlast.index = dlast.kind

\* C6 as stated: the loop over begin(dev)..end(dev) never throws, and when it
\* ends it has visited exactly the supported kinds, each once, in ascending
\* order.
C6_LoopVisitsSupportedKinds ==
    /\ it_state # "threw"
    /\ it_state = "done" => visited = Ascending(probe)

\* ------------------------------------------------------------- class error
\* A const char* is <<>> (a null pointer) or <<text>>; a std::string is its text.
Messages == {<<"device busy">>, <<"bad argument">>, <<"">>}
FailedStrings == {<<>>, <<"">>, <<"rs_open">>}

\* what rs_get_error_message, rs_get_failed_function and rs_get_failed_args
\* return for a native error object
NativeErrors == [msg : Messages, func : FailedStrings, args : FailedStrings]

\* a plausible slip: the constructor does not free the native error object
error_ctor_leaks(err) ==
    [what |-> err.msg[1],
     function |-> IF <<>> # err.func THEN err.func[1] ELSE "",
     args |-> IF <<>> # err.args THEN err.args[1] ELSE "",
     frees |-> 0]

\* explicit error(rs_error * err) : std::runtime_error(rs_get_error_message(err))
\*   { function = (nullptr != rs_get_failed_function(err)) ? ... : std::string();
\*     args = (nullptr != rs_get_failed_args(err)) ? ... : std::string();
\*     rs_free_error(err); }
error_ctor(err) ==
    [what |-> err.msg[1],
     function |-> IF <<>> # err.func THEN err.func[1] ELSE "",
     args |-> IF <<>> # err.args THEN err.args[1] ELSE "",
     frees |-> 1]

NoException == [what |-> "", function |-> "", args |-> "", frees |-> 0]

\* static void handle(rs_error * e) { if (e) throw error(e); }
\* e is Null or the native error object's number; err is what it holds.
error_handle(e, err) ==
    IF e # Null THEN [threw |-> TRUE, ex |-> error_ctor(err)]
    ELSE [threw |-> FALSE, ex |-> NoException]

NoError == [msg |-> <<"">>, func |-> <<>>, args |-> <<>>]

ErrorInit ==
    /\ next_err = 0
    /\ err_obj = [i \in 1..MaxErrors |-> NoError]
    /\ err_freed = [i \in 1..MaxErrors |-> 0]
    /\ elast = [op |-> "none", e |-> Null, err |-> NoError, threw |-> FALSE,
                ex |-> NoException, pre_freed |-> [i \in 1..MaxErrors |-> 0]]

\* A wrapped call whose native function leaves its error slot null:
\*   rs_error * e = nullptr; auto r = rs_xxx(..., &e); error::handle(e); return r;
CallSucceeds ==
    /\ LET h == error_handle(Null, NoError)
       IN  elast' = [op |-> "call", e |-> Null, err |-> NoError, threw |-> h.threw,
                     ex |-> h.ex, pre_freed |-> err_freed]
    /\ UNCHANGED <<next_err, err_obj, err_freed>>
    /\ UNCHANGED notError

\* A wrapped call whose native function leaves a new error object in the slot.
CallFails(err) ==
    /\ next_err < MaxErrors
    /\ next_err' = next_err + 1
    /\ err_obj' = [err_obj EXCEPT ![next_err + 1] = err]
    /\ LET e == next_err + 1
           h == error_handle(e, err)
       IN  /\ err_freed' = [err_freed EXCEPT ![e] = @ + h.ex.frees]
           /\ elast' = [op |-> "call", e |-> e, err |-> err, threw |-> h.threw,
                        ex |-> h.ex, pre_freed |-> err_freed]
    /\ UNCHANGED notError

ErrorNext ==
    \/ CallSucceeds
    \/ \E err \in NativeErrors : CallFails(err)

\* -------------------------------------------------------- error: properties
\* the std::string a const char* converts to, with an empty one for null
TextOrEmpty(p) == IF p = <<>> THEN "" ELSE p[1]

\* C7: a native call that leaves an error object in its slot ends in a thrown
\* rs::error whose what() is the native message and whose failed function and
\* args are the native strings, or empty when the native pointer is null, and
\* the error object is freed exactly once; a call that leaves the slot null
\* returns normally and frees nothing.  Every error object created so far has
\* been freed exactly once.
C7_ErrorCarriesNativeFields ==
    /\ elast.op = "call" /\ elast.e # Null =>
          /\ elast.threw
          /\ elast.ex.what = elast.err.msg[1]
          /\ elast.ex.function = TextOrEmpty(elast.err.func)
          /\ elast.ex.args = TextOrEmpty(elast.err.args)
          /\ err_freed[elast.e] = 1
          /\ \A i \in 1..MaxErrors : i # elast.e => err_freed[i] = elast.pre_freed[i]
    /\ elast.op = "call" /\ elast.e = Null =>
          /\ ~elast.threw
          /\ err_freed = elast.pre_freed
    /\ \A i \in 1..MaxErrors : err_freed[i] = IF i <= next_err THEN 1 ELSE 0

\* C7's case: a call has failed with a message, a null failed function and
\* non-null failed args, after an earlier call failed too.
C7_Witness ==
    /\ elast.op = "call"
    /\ elast.e = 2
    /\ elast.threw
    /\ elast.err.msg = <<"device busy">>
    /\ elast.err.func = <<>>
    /\ elast.err.args = <<"rs_open">>
    /\ elast.ex.function = ""
    /\ elast.ex.args = "rs_open"

\* --------------------------------------------- subdevice::get_option_range
Values == 0..MaxValue

\* a plausible slip: the out-pointers are passed in the struct's field order
\* (struct option_range { float min; float max; float def; float step; })
range_args_in_field_order == <<"min", "max", "def", "step">>

\* rs_get_subdevice_option_range(_dev, _index, option,
\*     &result.min, &result.max, &result.step, &result.def, &e);
\* the fields whose addresses are passed, in parameter order
range_args == <<"min", "max", "step", "def">>

\* option_range get_option_range(rs_option option) const: the native call
\* writes w[i] through its i-th out-pointer.
get_option_range(w) ==
    LET at(f) == CHOOSE i \in 1..4 : range_args[i] = f
    IN  [min |-> w[at("min")], max |-> w[at("max")],
         def |-> w[at("def")], step |-> w[at("step")]]

RangeInit ==
    /\ range_out = <<0, 0, 0, 0>>
    /\ result = [threw |-> FALSE, called |-> FALSE,
                 range |-> [min |-> 0, max |-> 0, def |-> 0, step |-> 0]]

\* sub.get_option_range(option), the native call writing w.  With fail it
\* leaves an error and the call throws instead of returning.
GetOptionRange(w, fail) ==
    /\ range_out' = w
    /\ result' = [threw |-> fail, called |-> TRUE,
                  range |-> IF fail THEN [min |-> 0, max |-> 0, def |-> 0, step |-> 0]
                            ELSE get_option_range(w)]
    /\ UNCHANGED notRange

RangeNext == \E w \in Values \X Values \X Values \X Values, fail \in BOOLEAN :
                GetOptionRange(w, fail)

\* -------------------------------------------------------- range: properties
\* C9: the option_range returned holds in min, max, step and def the first,
\* second, third and fourth value the native call wrote.
C9_RangeFieldsByPosition ==
    result.called /\ ~result.threw =>
       /\ result.range.min = range_out[1]
       /\ result.range.max = range_out[2]
       /\ result.range.step = range_out[3]
       /\ result.range.def = range_out[4]

\* C9's case: a call in which the native layer wrote four different values.
C9_Witness ==
    /\ result.called /\ ~result.threw
    /\ Cardinality({range_out[i] : i \in 1..4}) = 4
    /\ result.range = [min |-> range_out[1], max |-> range_out[2],
                       def |-> range_out[4], step |-> range_out[3]]

\* ------------------------------------------------- shared native handles
Owners == 1..NumOwners
Handles == 1..MaxHandles

\* The shared_ptr bookkeeping of the handles: S.uc is each control block's use
\* count, S.rel the calls of each handle's deleter.
\* std::shared_ptr<T>(handle, deleter)
sp_make(S, h) == [S EXCEPT !.uc[h] = 1]

\* a copy of a shared_ptr that holds h
sp_copy(S, h) == [S EXCEPT !.uc[h] = @ + 1]

\* a shared_ptr that holds h is destroyed or assigned over: the last one runs
\* the deleter
sp_drop(S, h) ==
    IF S.uc[h] = 1 THEN [S EXCEPT !.uc[h] = 0, !.rel[h] = @ + 1]
    ELSE [S EXCEPT !.uc[h] = @ - 1]

\* What a creation leaves of a fresh handle h, by class:
\*   subdevice::open: the local `lock`, copied into streaming_lock's parameter,
\*     which is moved into _lock; the local is destroyed at the return.
\*   context::context, frame_queue::frame_queue: the member is assigned the
\*     new shared_ptr.
\*   context::query_devices: the local `dev`, copied into device's parameter
\*     and from it into _dev; rs_dev is copied into the vector; the parameter,
\*     rs_dev and dev are destroyed.
created(S, k, h) ==
    CASE k = "lock" -> sp_drop(sp_copy(sp_make(S, h), h), h)
      [] k = "device" ->
            sp_drop(sp_drop(sp_copy(sp_drop(sp_copy(sp_copy(sp_make(S, h), h), h), h), h), h), h)
      [] OTHER -> sp_make(S, h)

\* a plausible slip: a copy takes the handle without sharing its ownership
wrapper_copy_unshared(S, h) == S

\* the implicit copy constructor of streaming_lock, context, device and
\* frame_queue copies the shared_ptr member
wrapper_copy(S, h) == sp_copy(S, h)

\* the implicit copy assignment: the member takes the other's handle hn and
\* gives up its own ho
wrapper_assign(S, ho, hn) == sp_drop(sp_copy(S, hn), ho)

\* the member's destruction at the end of a wrapper's destructor
wrapper_dtor(S, h) == sp_drop(S, h)

Counts == [uc |-> use_count, rel |-> release_calls]

OwnersOf(h) == {o \in Owners : otype[o] # "none" /\ own[o] = h}

NoDestroy == [op |-> "none", o |-> 0, h |-> 0, file |-> "", pre_saves |-> 0,
              pre_rel |-> 0]

SharedInit ==
    /\ next_handle = 0
    /\ hkind = [h \in Handles |-> "none"]
    /\ use_count = [h \in Handles |-> 0]
    /\ release_calls = [h \in Handles |-> 0]
    /\ null_deleted = FALSE
    /\ otype = [o \in Owners |-> "none"]
    /\ own = [o \in Owners |-> Null]
    /\ was_shared = [h \in Handles |-> FALSE]
    /\ terminated = FALSE
    /\ filename = [o \in Owners |-> ""]
    /\ saves = [h \in Handles |-> 0]
    /\ saved_to = [h \in Handles |-> ""]
    /\ given_file = [h \in Handles |-> ""]
    /\ save_on_deleted = FALSE
    /\ rlast = NoDestroy

\* subdevice::open (k = "lock"), context::context, a device of
\* context::query_devices, frame_queue::frame_queue.  With fail the native
\* creation returns null and leaves an error: the shared_ptr built around the
\* null pointer runs its deleter on it when the throw unwinds.
Create(o, k, fail) ==
    /\ ~terminated
    /\ otype[o] = "none"
    /\ IF fail
       THEN /\ null_deleted' = TRUE
            /\ UNCHANGED <<next_handle, hkind, use_count, release_calls, otype, own>>
       ELSE /\ next_handle < MaxHandles
            /\ LET h == next_handle + 1
                   S == created(Counts, k, h)
               IN  /\ next_handle' = h
                   /\ hkind' = [hkind EXCEPT ![h] = k]
                   /\ use_count' = S.uc
                   /\ release_calls' = S.rel
                   /\ otype' = [otype EXCEPT ![o] = k]
                   /\ own' = [own EXCEPT ![o] = h]
            /\ UNCHANGED null_deleted
    /\ UNCHANGED <<was_shared, terminated, recordingVars>>
    /\ UNCHANGED notShared

\* T b(a);  for a wrapper a of class T
CopyOwner(o2, o1) ==
    /\ ~terminated
    /\ otype[o2] = "none"
    /\ otype[o1] # "none"
    /\ LET S == wrapper_copy(Counts, own[o1])
       IN  /\ use_count' = S.uc
           /\ release_calls' = S.rel
    /\ otype' = [otype EXCEPT ![o2] = otype[o1]]
    /\ own' = [own EXCEPT ![o2] = own[o1]]
    /\ filename' = [filename EXCEPT ![o2] = filename[o1]]
    /\ was_shared' = [was_shared EXCEPT ![own[o1]] = TRUE]
    /\ UNCHANGED <<next_handle, hkind, null_deleted, terminated, saves, saved_to,
                   given_file, save_on_deleted, rlast>>
    /\ UNCHANGED notShared

\* b = a;  for wrappers a and b of the same class
AssignOwner(o2, o1) ==
    /\ ~terminated
    /\ otype[o2] # "none"
    /\ otype[o1] = otype[o2]
    /\ LET S == wrapper_assign(Counts, own[o2], own[o1])
       IN  /\ use_count' = S.uc
           /\ release_calls' = S.rel
    /\ own' = [own EXCEPT ![o2] = own[o1]]
    /\ filename' = [filename EXCEPT ![o2] = filename[o1]]
    /\ was_shared' = [was_shared EXCEPT ![own[o1]] = @ \/ o1 # o2]
    /\ UNCHANGED <<next_handle, hkind, null_deleted, otype, terminated, saves,
                   saved_to, given_file, save_on_deleted, rlast>>
    /\ UNCHANGED notShared

\* a plausible slip: the recording_context destructor does not save
recording_dtor_no_save(h, file, fail) ==
    [saves |-> saves, saved_to |-> saved_to, on_deleted |-> save_on_deleted,
     terminate |-> FALSE]

\* ~recording_context() { save(); } with
\* save() { rs_save_recording_to_file(_context.get(), _filename.c_str(), &e);
\*          error::handle(e); }
\* What save throws leaves a destructor: std::terminate.
recording_dtor(h, file, fail) ==
    [saves |-> [saves EXCEPT ![h] = @ + 1],
     saved_to |-> [saved_to EXCEPT ![h] = file],
     on_deleted |-> save_on_deleted \/ release_calls[h] > 0,
     terminate |-> fail]

\* What runs before the members are destroyed: ~recording_context() saves,
\* ~frame_queue() flushes, the other destructors are implicit.  With fail the
\* native call of the body leaves an error.
dtor_body(k, h, file, fail) ==
    CASE k = "recording" -> recording_dtor(h, file, fail)
      [] k = "queue" ->
            [saves |-> saves, saved_to |-> saved_to, on_deleted |-> save_on_deleted,
             terminate |-> fail]
      [] OTHER ->
            [saves |-> saves, saved_to |-> saved_to, on_deleted |-> save_on_deleted,
             terminate |-> FALSE]

\* a wrapper object goes out of scope
DestroyOwner(o, fail) ==
    /\ ~terminated
    /\ otype[o] # "none"
    /\ otype[o] = "recording" => saves[own[o]] < MaxSaves
    /\ LET h == own[o]
           b == dtor_body(otype[o], h, filename[o], fail)
           S == wrapper_dtor(Counts, h)
       IN  /\ saves' = b.saves
           /\ saved_to' = b.saved_to
           /\ save_on_deleted' = b.on_deleted
           /\ terminated' = b.terminate
           /\ rlast' = IF otype[o] = "recording"
                       THEN [op |-> "destroy", o |-> o, h |-> h, file |-> filename[o],
                             pre_saves |-> saves[h], pre_rel |-> release_calls[h]]
                       ELSE NoDestroy
           /\ IF b.terminate
              THEN UNCHANGED <<use_count, release_calls, otype, own, filename>>
              ELSE /\ use_count' = S.uc
                   /\ release_calls' = S.rel
                   /\ otype' = [otype EXCEPT ![o] = "none"]
                   /\ own' = [own EXCEPT ![o] = Null]
                   /\ filename' = [filename EXCEPT ![o] = ""]
    /\ UNCHANGED <<next_handle, hkind, null_deleted, was_shared, given_file>>
    /\ UNCHANGED notShared

SharedNext ==
    \/ \E o \in Owners, k \in {"lock", "context", "device", "queue"}, fail \in BOOLEAN :
          Create(o, k, fail)
    \/ \E o2, o1 \in Owners : CopyOwner(o2, o1)
    \/ \E o2, o1 \in Owners : AssignOwner(o2, o1)
    \/ \E o \in Owners, fail \in BOOLEAN : DestroyOwner(o, fail)

\* ----------------------------------------------- shared handles: properties
\* C8: a native handle held by shared ownership has had its release function
\* called exactly once when no wrapper object owns it any more, and not at
\* all while one does; a handle not yet created has had none.
C8_ReleasedByLastOwner ==
    \A h \in Handles :
       /\ h <= next_handle /\ OwnersOf(h) # {} =>
             release_calls[h] = 0 /\ use_count[h] = Cardinality(OwnersOf(h))
       /\ h <= next_handle /\ OwnersOf(h) = {} => release_calls[h] = 1
       /\ h > next_handle => release_calls[h] = 0

\* C8's case: a handle that had two owners at once has lost both and is
\* released, while another handle still has two owners.
C8_Witness ==
    \E h1, h2 \in Handles :
       /\ was_shared[h1] /\ OwnersOf(h1) = {} /\ release_calls[h1] = 1
       /\ Cardinality(OwnersOf(h2)) = 2 /\ release_calls[h2] = 0

\* ------------------------------------------------------ recording_context
Files == {"a.rec", "b.rec"}

\* explicit recording_context(const char* filename) : _filename(filename)
\* The base context() runs first and creates a live native context, which the
\* body's assignment of the recording context to _context gives up.  fail is
\* "no", "base" (rs_create_context fails) or "create"
\* (rs_create_recording_context fails); a constructor that throws leaves no
\* object, and the shared_ptr around the null pointer runs its deleter.
RecordingCtor(o, file, fail) ==
    /\ ~terminated
    /\ otype[o] = "none"
    /\ CASE fail = "base" ->
              /\ null_deleted' = TRUE
              /\ UNCHANGED <<next_handle, hkind, use_count, release_calls, otype, own,
                             filename, given_file>>
         [] fail = "create" ->
              /\ next_handle < MaxHandles
              /\ LET h0 == next_handle + 1
                     S  == sp_drop(sp_make(Counts, h0), h0)
                 IN  /\ next_handle' = h0
                     /\ hkind' = [hkind EXCEPT ![h0] = "context"]
                     /\ use_count' = S.uc
                     /\ release_calls' = S.rel
              /\ null_deleted' = TRUE
              /\ UNCHANGED <<otype, own, filename, given_file>>
         [] OTHER ->
              /\ next_handle + 1 < MaxHandles
              /\ LET h0 == next_handle + 1
                     h1 == next_handle + 2
                     S  == sp_drop(sp_make(sp_make(Counts, h0), h1), h0)
                 IN  /\ next_handle' = h1
                     /\ hkind' = [hkind EXCEPT ![h0] = "context", ![h1] = "recording"]
                     /\ use_count' = S.uc
                     /\ release_calls' = S.rel
                     /\ otype' = [otype EXCEPT ![o] = "recording"]
                     /\ own' = [own EXCEPT ![o] = h1]
                     /\ filename' = [filename EXCEPT ![o] = file]
                     /\ given_file' = [given_file EXCEPT ![h1] = file]
              /\ UNCHANGED null_deleted
    /\ UNCHANGED <<was_shared, terminated, saves, saved_to, save_on_deleted, rlast>>
    /\ UNCHANGED notShared

\* context c(rc);  the copy of a recording_context's base part
SliceCopy(o2, o1) ==
    /\ ~terminated
    /\ otype[o2] = "none"
    /\ otype[o1] = "recording"
    /\ LET S == wrapper_copy(Counts, own[o1])
       IN  /\ use_count' = S.uc
           /\ release_calls' = S.rel
    /\ otype' = [otype EXCEPT ![o2] = "context"]
    /\ own' = [own EXCEPT ![o2] = own[o1]]
    /\ was_shared' = [was_shared EXCEPT ![own[o1]] = TRUE]
    /\ UNCHANGED <<next_handle, hkind, null_deleted, terminated, recordingVars>>
    /\ UNCHANGED notShared

\* rc.save();  with fail the native call leaves an error and save throws
Save(o, fail) ==
    /\ ~terminated
    /\ otype[o] = "recording"
    /\ saves[own[o]] < MaxSaves
    /\ LET b == recording_dtor(own[o], filename[o], fail)
       IN  /\ saves' = b.saves
           /\ saved_to' = b.saved_to
           /\ save_on_deleted' = b.on_deleted
    /\ rlast' = NoDestroy
    /\ UNCHANGED <<handleVars, filename, given_file>>
    /\ UNCHANGED notShared

RecordingNext ==
    \/ \E o \in Owners, f \in Files, fail \in {"no", "base", "create"} :
          RecordingCtor(o, f, fail)
    \/ \E o2, o1 \in Owners : CopyOwner(o2, o1)
    \/ \E o2, o1 \in Owners : SliceCopy(o2, o1)
    \/ \E o \in Owners, fail \in BOOLEAN : Save(o, fail)
    \/ \E o \in Owners, fail \in BOOLEAN : DestroyOwner(o, fail)

\* ------------------------------------------- recording_context: properties
\* C10: the destruction of a recording_context issues exactly one save, on its
\* native context, not yet deleted, to the file name its construction was
\* given; no save is ever issued on a deleted context, and a recording
\* context that has been deleted was saved before and deleted once.
C10_DestructorSavesBeforeDelete ==
    /\ rlast.op = "destroy" =>
          /\ saves[rlast.h] = rlast.pre_saves + 1
          /\ saved_to[rlast.h] = given_file[rlast.h]
          /\ rlast.file = given_file[rlast.h]
          /\ rlast.pre_rel = 0
    /\ ~save_on_deleted
    /\ \A h \in Handles :
          hkind[h] = "recording" /\ release_calls[h] > 0 =>
             saves[h] >= 1 /\ release_calls[h] = 1

\* C10's case: the last of several owners of a recording context, saved
\* before, has been destroyed: one more save, then the context's deletion.
C10_Witness ==
    /\ rlast.op = "destroy"
    /\ ~terminated
    /\ was_shared[rlast.h]
    /\ rlast.pre_saves >= 1
    /\ saves[rlast.h] = rlast.pre_saves + 1
    /\ release_calls[rlast.h] = 1

\* ------------------------------------- frame_queue copies on one native queue
QueueObjs == 1..NumQueueObjs

\* rs_flush_queue: the native queue drops every pending frame.
native_flush(q) == <<>>

\* void flush() const { rs_flush_queue(_queue.get(), &e); error::handle(e); }
\* the outcomes: [pending, threw].  With fail the native call leaves an error
\* and flush throws, the queue flushed or not.
frame_queue_flush(q, fail) ==
    IF fail THEN {[pending |-> p, threw |-> TRUE] : p \in {q, native_flush(q)}}
    ELSE {[pending |-> native_flush(q), threw |-> FALSE]}

\* ~frame_queue() { flush(); } and then the member _queue is destroyed: the
\* shared_ptr's deleter rs_delete_frame_queue runs when this was the last
\* owner.  A destructor is noexcept, so a throwing flush() ends the process
\* before the member is destroyed.
frame_queue_dtor(q, owners, fail) ==
    {[pending |-> f.pending, terminated |-> f.threw,
      destroyed |-> ~f.threw, deleted |-> ~f.threw /\ owners = 1]
        : f \in frame_queue_flush(q, fail)}

\* The latest operation on a frame_queue object with the pending frames and
\* the number of live frame_queue objects before it.
QBefore(op, o) ==
    [op |-> op, obj |-> o, pre_pending |-> pending, pre_owners |-> Cardinality(q_alive)]

CopiesInit ==
    /\ q_alive = {}
    /\ q_created = FALSE
    /\ q_capacity = 0
    /\ q_deleted = 0
    /\ pending = <<>>
    /\ delivered = 0
    /\ q_terminated = FALSE
    /\ qlast = [op |-> "none", obj |-> 0, pre_pending |-> <<>>, pre_owners |-> 0]

\* frame_queue q(cap);  With fail rs_create_frame_queue leaves an error, the
\* constructor throws and no object exists.
QueueCtor(o, cap, fail) ==
    /\ ~q_terminated
    /\ ~q_created
    /\ o \notin q_alive
    /\ qlast' = QBefore("ctor", o)
    /\ IF fail
       THEN UNCHANGED <<q_alive, q_created, q_capacity>>
       ELSE /\ q_alive' = q_alive \cup {o}
            /\ q_created' = TRUE
            /\ q_capacity' = cap
    /\ UNCHANGED <<q_deleted, pending, delivered, q_terminated>>
    /\ UNCHANGED notCopies

\* frame_queue o2(o1);  the implicit copy constructor copies _queue.
QueueCopy(o2, o1) ==
    /\ ~q_terminated
    /\ o1 \in q_alive
    /\ o2 \notin q_alive
    /\ q_alive' = q_alive \cup {o2}
    /\ qlast' = QBefore("copy", o2)
    /\ UNCHANGED <<q_created, q_capacity, q_deleted, pending, delivered, q_terminated>>
    /\ UNCHANGED notCopies

\* lock.start(o);  T = frame_queue.  The parameter callback is a copy of o,
\* the constructor parameter on_frame a copy of callback, the member
\* on_frame_function (object c, alive until release()) a copy of on_frame;
\* frame_queue declares a destructor, so std::move(callback) copies.  Both
\* parameters are destroyed before start returns, o and c being alive.  With
\* fail "start" rs_start_cpp leaves an error and start throws after the same
\* destructions; with fail "flush" the flush of a parameter's destructor throws.
Start(o, c, fail) ==
    /\ ~q_terminated
    /\ o \in q_alive
    /\ c \notin q_alive
    /\ fail \in {"no", "start", "flush"}
    /\ qlast' = QBefore("start", c)
    /\ \E d1 \in frame_queue_dtor(pending, Cardinality(q_alive) + 3, fail = "flush") :
          IF d1.terminated
          THEN /\ pending' = d1.pending
               /\ q_terminated' = TRUE
               /\ q_alive' = q_alive \cup {c}
          ELSE \E d2 \in frame_queue_dtor(d1.pending, Cardinality(q_alive) + 2, FALSE) :
                  /\ pending' = d2.pending
                  /\ q_terminated' = FALSE
                  /\ q_alive' = q_alive \cup {c}
    /\ UNCHANGED <<q_created, q_capacity, q_deleted, delivered>>
    /\ UNCHANGED notCopies

\* o.enqueue(f) / o(f): the callback's copy called by the native layer, or any
\* other copy called by the program.
QueueEnqueue(o) ==
    /\ ~q_terminated
    /\ o \in q_alive
    /\ delivered < MaxDeliveries
    /\ delivered' = delivered + 1
    /\ pending' = native_enqueue(pending, q_capacity, delivered + 1)
    /\ qlast' = QBefore("enqueue", o)
    /\ UNCHANGED <<q_alive, q_created, q_capacity, q_deleted, q_terminated>>
    /\ UNCHANGED notCopies

\* o.poll_for_frame(&f);  With fail the native call leaves an error and
\* poll_for_frame throws.
QueuePollForFrame(o, fail) ==
    /\ ~q_terminated
    /\ o \in q_alive
    /\ pending' = IF fail THEN pending ELSE native_poll(pending).q
    /\ qlast' = QBefore("poll", o)
    /\ UNCHANGED <<q_alive, q_created, q_capacity, q_deleted, delivered, q_terminated>>
    /\ UNCHANGED notCopies

\* f = o.wait_for_frame();  returns once a frame is pending.
QueueWaitForFrame(o, fail) ==
    /\ ~q_terminated
    /\ o \in q_alive
    /\ pending # <<>>
    /\ pending' = IF fail THEN pending ELSE native_poll(pending).q
    /\ qlast' = QBefore("wait", o)
    /\ UNCHANGED <<q_alive, q_created, q_capacity, q_deleted, delivered, q_terminated>>
    /\ UNCHANGED notCopies

\* o.flush();
QueueFlush(o, fail) ==
    /\ ~q_terminated
    /\ o \in q_alive
    /\ \E f \in frame_queue_flush(pending, fail) : pending' = f.pending
    /\ qlast' = QBefore("flush", o)
    /\ UNCHANGED <<q_alive, q_created, q_capacity, q_deleted, delivered, q_terminated>>
    /\ UNCHANGED notCopies

\* o goes out of scope, or the native layer calls release() on the callback
\* that holds o ({ delete this; }).
QueueDestroy(o, fail) ==
    /\ ~q_terminated
    /\ o \in q_alive
    /\ qlast' = QBefore("destroy", o)
    /\ \E d \in frame_queue_dtor(pending, Cardinality(q_alive), fail) :
          /\ pending' = d.pending
          /\ q_terminated' = d.terminated
          /\ q_alive' = IF d.destroyed THEN q_alive \ {o} ELSE q_alive
          /\ q_deleted' = IF d.deleted THEN q_deleted + 1 ELSE q_deleted
    /\ UNCHANGED <<q_created, q_capacity, delivered>>
    /\ UNCHANGED notCopies

CopiesNext ==
    \/ \E o \in QueueObjs, cap \in 1..MaxCapacity, fail \in BOOLEAN : QueueCtor(o, cap, fail)
    \/ \E o2, o1 \in QueueObjs : QueueCopy(o2, o1)
    \/ \E o, c \in QueueObjs, fail \in {"no", "start", "flush"} : Start(o, c, fail)
    \/ \E o \in QueueObjs : QueueEnqueue(o)
    \/ \E o \in QueueObjs, fail \in BOOLEAN : QueuePollForFrame(o, fail)
    \/ \E o \in QueueObjs, fail \in BOOLEAN : QueueWaitForFrame(o, fail)
    \/ \E o \in QueueObjs, fail \in BOOLEAN : QueueFlush(o, fail)
    \/ \E o \in QueueObjs, fail \in BOOLEAN : QueueDestroy(o, fail)

\* ------------------------------------------------ frame_queue copies: properties
\* C11: frames pending in the native queue are removed only by flush(), by
\* wait_for_frame / poll_for_frame, or by the destruction of the last
\* frame_queue object owning the queue: after a copy is destroyed while another
\* copy is alive (the copies start() makes of a queue passed by value
\* included), and after a construction or a copy, the pending frames are the
\* ones pending before.
C11_CopyDestructionKeepsPending ==
    (/\ ~q_terminated
     /\ \/ qlast.op \in {"ctor", "copy", "start"}
        \/ qlast.op = "destroy" /\ qlast.pre_owners > 1)
        => pending = qlast.pre_pending

\* The native queue is deleted at most once, and only when no frame_queue
\* object is left.
QueueDeletedByLastOwner ==
    /\ q_deleted <= 1
    /\ q_deleted = 1 => q_alive = {}

\* ----------------------------------------------------------- specifications
Init == FrameInit /\ DeviceInit /\ ErrorInit /\ RangeInit /\ SharedInit /\ CopiesInit

SpecFrame == Init /\ [][FrameNext]_vars

SpecDevice == Init /\ [][DeviceNext]_vars

SpecError == Init /\ [][ErrorNext]_vars

SpecRange == Init /\ [][RangeNext]_vars

SpecShared == Init /\ [][SharedNext]_vars

SpecRecording == Init /\ [][RecordingNext]_vars

SpecCopies == Init /\ [][CopiesNext]_vars

====
